---- MODULE Spec2Model ----
(***************************************************************************)
(* LU decomposition with complete pivoting (class LU, Eigen/src/LU/LU.h)   *)
(* and the queries built on it: rank, kernel, image, solve, determinant,   *)
(* inverse.  Scalars are exact rationals <<numerator, denominator>> in     *)
(* lowest terms with a positive denominator; <<0, 0>> is the value a       *)
(* division by zero produces (it propagates through every operation and    *)
(* compares false with everything).  Matrices are records                  *)
(* [rows, cols, a] with a[i, j] indexed from 0 as in the code.             *)
(***************************************************************************)
EXTENDS Integers, Sequences, FiniteSets, TLC

(* ---------------------------- bounds ---------------------------------- *)
MaxRows == 3
MaxCols == 3
MaxCells == 6
MaxVal == 1
MaxRhsCols == 1
MaxAliasCells == 4
MaxWrites == 1
MaxComputes == 2

(* ---------------------------- scalars --------------------------------- *)
RECURSIVE GCD(_, _)
GCD(a, b) == IF b = 0 THEN a ELSE GCD(b, a % b)

IAbs(n) == IF n < 0 THEN -n ELSE n

Rat(n, d) ==
  IF d = 0 THEN <<0, 0>>
  ELSE LET g == GCD(IAbs(n), IAbs(d))
           s == IF d < 0 THEN -1 ELSE 1
       IN <<(s * n) \div g, (s * d) \div g>>

RZero == <<0, 1>>
ROne == <<1, 1>>
RInt(n) == <<n, 1>>
IsNum(x) == x[2] # 0
RAdd(x, y) == Rat(x[1] * y[2] + y[1] * x[2], x[2] * y[2])
RNeg(x) == <<-x[1], x[2]>>
RSub(x, y) == RAdd(x, RNeg(y))
RMul(x, y) == Rat(x[1] * y[1], x[2] * y[2])
RDiv(x, y) == Rat(x[1] * y[2], x[2] * y[1])
RAbs(x) == <<IAbs(x[1]), x[2]>>
RLe(x, y) == IsNum(x) /\ IsNum(y) /\ x[1] * y[2] <= y[1] * x[2]
RLt(x, y) == IsNum(x) /\ IsNum(y) /\ x[1] * y[2] < y[1] * x[2]

(* epsilon<Scalar>() and precision<RealScalar>() for Scalar = float *)
epsilon == <<1, 8388608>>
precision == <<1, 100000>>

(* the comparison made strict: a zero corner is no longer negligible next   *)
(* to a zero first pivot                                                    *)
ei_isMuchSmallerThan_strict(a, b, prec) == RLt(RAbs(a), RMul(RAbs(b), prec))

(* ei_isMuchSmallerThan(a, b, prec): |a| <= |b| * prec *)
(* the comparison with its two operands exchanged *)
ei_isMuchSmallerThan_swapped(a, b, prec) == RLe(RAbs(b), RMul(RAbs(a), prec))

ei_isMuchSmallerThan(a, b, prec) == RLe(RAbs(a), RMul(RAbs(b), prec))

Min(a, b) == IF a < b THEN a ELSE b
Max(a, b) == IF a > b THEN a ELSE b

(* ---------------------------- matrices -------------------------------- *)
Mat(r, c, f) == [rows |-> r, cols |-> c, a |-> f]

(* the index set of the coefficients of an r x c matrix *)
Cells(r, c) == (0..(r - 1)) \X (0..(c - 1))

Zero(r, c) == Mat(r, c,
      [i \in 0..(r - 1), j \in 0..(c - 1) |->
         RZero])
Identity(r, c) == Mat(r, c,
      [i \in 0..(r - 1), j \in 0..(c - 1) |->
         IF i = j THEN ROne ELSE RZero])

RECURSIVE SumTo(_, _)
SumTo(t, n) == IF n = 0 THEN RZero ELSE RAdd(SumTo(t, n - 1), t[n - 1])

(* the product lhs * rhs of two matrices with lhs.cols = rhs.rows *)
MatMul(lhs, rhs) ==
  Mat(lhs.rows, rhs.cols,
      [i \in 0..(lhs.rows - 1), j \in 0..(rhs.cols - 1) |->
         SumTo([l \in 0..(lhs.cols - 1) |-> RMul(lhs.a[i, l], rhs.a[l, j])], lhs.cols)])

RECURSIVE ProdTo(_, _)
ProdTo(t, n) == IF n = 0 THEN ROne ELSE RMul(ProdTo(t, n - 1), t[n - 1])

SwapRows(m, r1, r2) ==
  Mat(m.rows, m.cols,
      [i \in 0..(m.rows - 1), j \in 0..(m.cols - 1) |->
         m.a[IF i = r1 THEN r2 ELSE IF i = r2 THEN r1 ELSE i, j]])

SwapCols(m, c1, c2) ==
  Mat(m.rows, m.cols,
      [i \in 0..(m.rows - 1), j \in 0..(m.cols - 1) |->
         m.a[i, IF j = c1 THEN c2 ELSE IF j = c2 THEN c1 ELSE j]])

(* a swap without a temporary: v[i] = v[j]; v[j] = v[i] *)
SwapIdx_notemp(v, i, j) == [v EXCEPT ![i] = v[j]]

(* std::swap(v[i], v[j]) on an index vector *)
SwapIdx(v, i, j) == [v EXCEPT ![i] = v[j], ![j] = v[i]]

IdentityIdx(n) == [i \in 0..(n - 1) |-> i]

(* a freshly sized matrix: rows x cols coefficients not yet written; any   *)
(* rows >= 0 and cols >= 0 is a legal size                                 *)
resize(r, c) == Mat(r, c,
      [i \in 0..(r - 1), j \in 0..(c - 1) |->
         <<0, 0>>])

(* v.resize(n) on an index vector: nothing happens when the size is n      *)
(* already, otherwise the n entries are newly allocated and not yet written *)
(* (-1)                                                                     *)
ResizeIdx(v, n) == IF DOMAIN v = 0..(n - 1) THEN v ELSE [i \in 0..(n - 1) |-> -1]

(* ------------------------- LU::compute -------------------------------- *)
(* partial pivoting: the maximum searched in column k only, rows >= k *)
maxCoeff_column(lu, k) ==
  LET cells == (k..(lu.rows - 1)) \X {k}
  IN CHOOSE p \in cells :
       \A q \in cells :
         /\ RLe(RAbs(lu.a[q]), RAbs(lu.a[p]))
         /\ (RAbs(lu.a[q]) = RAbs(lu.a[p]) /\ q # p => p[1] < q[1])

(* the maximum taken of the coefficients themselves, without cwise().abs() *)
maxCoeff_signed(lu, k) ==
  LET cells == (k..(lu.rows - 1)) \X (k..(lu.cols - 1))
      before(p, q) == p[2] < q[2] \/ (p[2] = q[2] /\ p[1] < q[1])
  IN CHOOSE p \in cells :
       \A q \in cells :
         /\ RLe(lu.a[q], lu.a[p])
         /\ (lu.a[q] = lu.a[p] /\ q # p => before(p, q))

(* position of the maximum of |lu| over the corner rows >= k, cols >= k,   *)
(* as maxCoeff(&row, &col) visits it: column by column, first maximum wins *)
maxCoeff(lu, k) ==
  LET cells == (k..(lu.rows - 1)) \X (k..(lu.cols - 1))
      before(p, q) == p[2] < q[2] \/ (p[2] = q[2] /\ p[1] < q[1])
  IN CHOOSE p \in cells :
       \A q \in cells :
         /\ RLe(RAbs(lu.a[q]), RAbs(lu.a[p]))
         /\ (RAbs(lu.a[q]) = RAbs(lu.a[p]) /\ q # p => before(p, q))

(* m_lu.col(k).end(rows-k-1) /= m_lu.coeff(k,k) *)
ScaleSubColumn(lu, k) ==
  Mat(lu.rows, lu.cols,
      [i \in 0..(lu.rows - 1), j \in 0..(lu.cols - 1) |->
         IF j = k /\ i > k THEN RDiv(lu.a[i, j], lu.a[k, k]) ELSE lu.a[i, j]])

(* m_lu.block(k+1,k+1,..) -= m_lu.col(k).end(..) * m_lu.row(k).end(..) *)
RankOneUpdate(lu, k) ==
  Mat(lu.rows, lu.cols,
      [i \in 0..(lu.rows - 1), j \in 0..(lu.cols - 1) |->
         IF i > k /\ j > k
                 THEN RSub(lu.a[i, j], RMul(lu.a[i, k], lu.a[k, j]))
                 ELSE lu.a[i, j]])

(* one pass of the body of the elimination loop, for index k *)
EliminationStep(s, k, size, prec) ==
  LET rows == s.lu.rows
      cols == s.lu.cols
      pos == maxCoeff(s.lu, k)
      row_of_biggest_in_corner == pos[1]
      col_of_biggest_in_corner == pos[2]
      biggest_in_corner == RAbs(s.lu.a[pos])
      biggest == IF k = 0 THEN biggest_in_corner ELSE s.biggest
  IN IF ei_isMuchSmallerThan(biggest_in_corner, biggest, prec)
     THEN [s EXCEPT !.biggest = biggest,
                    !.rank = k,
                    !.rows_transpositions =
                       [i \in DOMAIN @ |-> IF i >= k /\ i < size THEN i ELSE @[i]],
                    !.cols_transpositions =
                       [i \in DOMAIN @ |-> IF i >= k /\ i < size THEN i ELSE @[i]],
                    !.break = TRUE]
     ELSE LET l1 == IF k # row_of_biggest_in_corner
                    THEN SwapRows(s.lu, k, row_of_biggest_in_corner) ELSE s.lu
              l2 == IF k # col_of_biggest_in_corner
                    THEN SwapCols(l1, k, col_of_biggest_in_corner) ELSE l1
              l3 == IF k < rows - 1 THEN ScaleSubColumn(l2, k) ELSE l2
              l4 == IF k < size - 1 THEN RankOneUpdate(l3, k) ELSE l3
          IN [s EXCEPT !.biggest = biggest,
                       !.lu = l4,
                       !.rows_transpositions = [@ EXCEPT ![k] = row_of_biggest_in_corner],
                       !.cols_transpositions = [@ EXCEPT ![k] = col_of_biggest_in_corner],
                       !.number_of_transpositions =
                          @ + (IF k # row_of_biggest_in_corner THEN 1 ELSE 0)
                            + (IF k # col_of_biggest_in_corner THEN 1 ELSE 0)]

(* the loop without its break: the passes after the terminating one run *)
RECURSIVE EliminationLoop_nobreak(_, _, _, _)
EliminationLoop_nobreak(s, k, size, prec) ==
  IF k >= size THEN s
  ELSE EliminationLoop_nobreak(EliminationStep(s, k, size, prec), k + 1, size, prec)

(* the loop for(k = from; k < size; ++k) with its break *)
RECURSIVE EliminationLoop(_, _, _, _)
EliminationLoop(s, k, size, prec) ==
  IF k >= size \/ s.break THEN s
  ELSE EliminationLoop(EliminationStep(s, k, size, prec), k + 1, size, prec)

(* the row transpositions replayed forward, from 0 up to k, as the column  *)
(* ones are                                                                 *)
RECURSIVE ReplayReverse_forward(_, _, _)
ReplayReverse_forward(p, t, k) ==
  IF k < 0 THEN p ELSE SwapIdx(ReplayReverse_forward(p, t, k - 1), k, t[k])

(* the reverse replay stopping one short: for(k = size-1; k > 0; --k) *)
RECURSIVE ReplayReverse_from1(_, _, _)
ReplayReverse_from1(p, t, k) ==
  IF k < 1 THEN p ELSE ReplayReverse_from1(SwapIdx(p, k, t[k]), t, k - 1)

(* for(k = size-1; k >= 0; --k) swap(m_p[k], m_p[rows_transpositions[k]]) *)
RECURSIVE ReplayReverse(_, _, _)
ReplayReverse(p, t, k) ==
  IF k < 0 THEN p ELSE ReplayReverse(SwapIdx(p, k, t[k]), t, k - 1)

(* the column transpositions replayed in reverse, from size-1 down to k, as *)
(* the row ones are                                                         *)
RECURSIVE ReplayForward_reverse(_, _, _, _)
ReplayForward_reverse(q, t, k, size) ==
  IF k >= size THEN q ELSE SwapIdx(ReplayForward_reverse(q, t, k + 1, size), k, t[k])

(* the forward replay stopping one short: for(k = 0; k < size-1; ++k) *)
RECURSIVE ReplayForward_short(_, _, _, _)
ReplayForward_short(q, t, k, size) ==
  IF k >= size - 1 THEN q ELSE ReplayForward_short(SwapIdx(q, k, t[k]), t, k + 1, size)

(* for(k = 0; k < size; ++k) swap(m_q[k], m_q[cols_transpositions[k]]) *)
RECURSIVE ReplayForward(_, _, _, _)
ReplayForward(q, t, k, size) ==
  IF k >= size THEN q ELSE ReplayForward(SwapIdx(q, k, t[k]), t, k + 1, size)

(* the loop entered without m_rank = size: m_rank is still the -1 of the    *)
(* constructor                                                              *)
EliminationStart_norank(matrix) ==
  [lu |-> matrix,
   rows_transpositions |-> [i \in 0..(matrix.rows - 1) |-> -1],
   cols_transpositions |-> [i \in 0..(matrix.cols - 1) |-> -1],
   number_of_transpositions |-> 0,
   biggest |-> RZero,
   rank |-> -1,
   break |-> FALSE]

(* the state of the loop variables before the first pass; the two          *)
(* transposition vectors are allocated but not yet written (-1)            *)
EliminationStart(matrix) ==
  [lu |-> matrix,
   rows_transpositions |-> [i \in 0..(matrix.rows - 1) |-> -1],
   cols_transpositions |-> [i \in 0..(matrix.cols - 1) |-> -1],
   number_of_transpositions |-> 0,
   biggest |-> RZero,
   rank |-> Min(matrix.rows, matrix.cols),
   break |-> FALSE]

(* only the entries that resize() newly allocated are set; those the       *)
(* vector already held are kept                                             *)
FillIdentity_onlynew(v) == [k \in DOMAIN v |-> IF v[k] = -1 THEN k ELSE v[k]]

(* for(k = 0; k < n; ++k) v.coeffRef(k) = k *)
FillIdentity(v) == [k \in DOMAIN v |-> k]

(* the sign with its two branches exchanged *)
DetPQ_inverted(number_of_transpositions) ==
  IF number_of_transpositions % 2 # 0 THEN 1 ELSE -1

(* m_det_pq = (number_of_transpositions % 2) ? -1 : 1 *)
DetPQ(number_of_transpositions) ==
  IF number_of_transpositions % 2 # 0 THEN -1 ELSE 1

(* the members LU::LU() sets *)
Constructed ==
  [m_lu |-> resize(0, 0),
   m_p |-> IdentityIdx(0),
   m_q |-> IdentityIdx(0),
   m_det_pq |-> 0,
   m_rank |-> -1,
   m_precision |-> precision]

(* the elimination made in place on the matrix the caller passed, m_lu      *)
(* being a copy of it taken at the end                                      *)
computeOn_inplace(old, matrix) ==
  LET size == Min(matrix.rows, matrix.cols)
      prec == RMul(epsilon, RInt(size))
      s == EliminationLoop(EliminationStart(matrix), 0, size, prec)
  IN [matrix |-> s.lu,
      m_lu |-> s.lu,
      m_p |-> ReplayReverse(FillIdentity(ResizeIdx(old.m_p, matrix.rows)),
                            s.rows_transpositions, size - 1),
      m_q |-> ReplayForward(FillIdentity(ResizeIdx(old.m_q, matrix.cols)),
                            s.cols_transpositions, 0, size),
      m_det_pq |-> DetPQ(s.number_of_transpositions),
      m_rank |-> s.rank,
      m_precision |-> prec]

(* compute(matrix) called on an object whose members are old: the members   *)
(* after the call, and the caller's matrix, which the code only reads       *)
computeOn(old, matrix) ==
  LET size == Min(matrix.rows, matrix.cols)
      prec == RMul(epsilon, RInt(size))
      s == EliminationLoop(EliminationStart(matrix), 0, size, prec)
  IN [matrix |-> matrix,
      m_lu |-> s.lu,
      m_p |-> ReplayReverse(FillIdentity(ResizeIdx(old.m_p, matrix.rows)),
                            s.rows_transpositions, size - 1),
      m_q |-> ReplayForward(FillIdentity(ResizeIdx(old.m_q, matrix.cols)),
                            s.cols_transpositions, 0, size),
      m_det_pq |-> DetPQ(s.number_of_transpositions),
      m_rank |-> s.rank,
      m_precision |-> prec]

(* the members of a newly constructed LU object after compute(matrix) *)
compute(matrix) == computeOn(Constructed, matrix)

(* ------------------- dense-matrix primitives used by the queries ------- *)
(* dst.row(r) = f *)
SetRow(m, r, f) ==
  Mat(m.rows, m.cols,
      [i \in 0..(m.rows - 1), j \in 0..(m.cols - 1) |->
         IF i = r THEN f[j] ELSE m.a[i, j]])

RowOf(m, r) == [j \in 0..(m.cols - 1) |-> m.a[r, j]]

RECURSIVE RSum(_, _, _)
RSum(f, lo, hi) == IF lo > hi THEN RZero ELSE RAdd(f[lo], RSum(f, lo + 1, hi))

(* triangularView<UnitLowerTriangular>().solveInPlace on the leading n rows *)
(* of c, with the leading n x n corner of lu: forward substitution         *)
RECURSIVE SolveUnitLower(_, _, _, _)
SolveUnitLower(lu, n, c, i) ==
  IF i >= n THEN c
  ELSE LET row == [j \in 0..(c.cols - 1) |->
                     RSub(c.a[i, j],
                          RSum([l \in 0..(i - 1) |-> RMul(lu.a[i, l], c.a[l, j])], 0, i - 1))]
       IN SolveUnitLower(lu, n, SetRow(c, i, row), i + 1)

(* triangularView<UpperTriangular>().solveInPlace on the leading n rows of *)
(* c, with the leading n x n corner of lu: backward substitution           *)
RECURSIVE SolveUpper(_, _, _, _)
SolveUpper(lu, n, c, i) ==
  IF i < 0 THEN c
  ELSE LET row == [j \in 0..(c.cols - 1) |->
                     RDiv(RSub(c.a[i, j],
                               RSum([l \in (i + 1)..(n - 1) |-> RMul(lu.a[i, l], c.a[l, j])],
                                    i + 1, n - 1)),
                          lu.a[i, i])]
       IN SolveUpper(lu, n, SetRow(c, i, row), i - 1)

(* ------------------- ei_lu_solve_impl::evalTo --------------------------- *)
(* step 1 with m_p read as an origin index: c.row(i) = rhs.row(m_p[i]) *)
RECURSIVE PermuteRhs_gather(_, _, _, _)
PermuteRhs_gather(c, rhs, p, i) ==
  IF i >= rhs.rows THEN c
  ELSE PermuteRhs_gather(SetRow(c, i, RowOf(rhs, p[i])), rhs, p, i + 1)

(* Step 1: for(i < rows) c.row(m_p[i]) = rhs.row(i) *)
RECURSIVE PermuteRhs(_, _, _, _)
PermuteRhs(c, rhs, p, i) ==
  IF i >= rhs.rows THEN c
  ELSE PermuteRhs(SetRow(c, p[i], RowOf(rhs, i)), rhs, p, i + 1)

(* Step 2, second half: c.bottom(rows-cols) -= lu.bottomLeft(rows-cols, cols) * c.top(cols) *)
CorrectBottom(lu, c) ==
  Mat(c.rows, c.cols,
      [i \in 0..(c.rows - 1), j \in 0..(c.cols - 1) |->
         IF i >= lu.cols
                 THEN RSub(c.a[i, j],
                           RSum([l \in 0..(lu.cols - 1) |-> RMul(lu.a[i, l], c.a[l, j])],
                                0, lu.cols - 1))
                 ELSE c.a[i, j]])

(* Step 4 with the second loop zeroing dst.row(i) instead of dst.row(m_q[i]) *)
RECURSIVE UnpermuteRows_direct(_, _, _, _, _)
UnpermuteRows_direct(dst, c, q, rank, i) ==
  IF i >= dst.rows THEN dst
  ELSE UnpermuteRows_direct(
         IF i < rank THEN SetRow(dst, q[i], RowOf(c, i))
         ELSE SetRow(dst, i, [j \in 0..(dst.cols - 1) |-> RZero]),
         c, q, rank, i + 1)

(* Step 4 copying every row that c has, those from rank onward included *)
RECURSIVE UnpermuteRows_all(_, _, _, _, _)
UnpermuteRows_all(dst, c, q, rank, i) ==
  IF i >= dst.rows THEN dst
  ELSE UnpermuteRows_all(
         SetRow(dst, q[i], IF i < rank \/ i < c.rows THEN RowOf(c, i)
                           ELSE [j \in 0..(dst.cols - 1) |-> RZero]),
         c, q, rank, i + 1)

(* Step 4: dst.row(m_q[i]) = c.row(i) for i < rank, setZero() for the rest *)
RECURSIVE UnpermuteRows(_, _, _, _, _)
UnpermuteRows(dst, c, q, rank, i) ==
  IF i >= dst.rows THEN dst
  ELSE UnpermuteRows(
         SetRow(dst, q[i], IF i < rank THEN RowOf(c, i)
                           ELSE [j \in 0..(dst.cols - 1) |-> RZero]),
         c, q, rank, i + 1)

(* the evaluation of lu.solve(rhs) into dst: [outcome, value] *)
evalTo(lu, rhs) ==
  LET rows == lu.m_lu.rows
      cols == lu.m_lu.cols
      rank == lu.m_rank
      smalldim == Min(rows, cols)
      dst == resize(cols, rhs.cols)
  IN IF rank = 0 THEN [outcome |-> "ok", value |-> Zero(cols, rhs.cols)]
     ELSE IF rhs.rows # rows THEN [outcome |-> "assert: rhs.rows() == rows", value |-> "none"]
     ELSE LET c1 == PermuteRhs(resize(rhs.rows, rhs.cols), rhs, lu.m_p, 0)
              c2 == SolveUnitLower(lu.m_lu, smalldim, c1, 0)
              c3 == IF rows > cols THEN CorrectBottom(lu.m_lu, c2) ELSE c2
              c4 == SolveUpper(lu.m_lu, rank, c3, rank - 1)
          IN [outcome |-> "ok", value |-> UnpermuteRows(dst, c4, lu.m_q, rank, 0)]

(* ------------------- LU::determinant ----------------------------------- *)
(* the product of the diagonal without the sign of the permutations *)
determinant_unsigned(lu) ==
  IF lu.m_lu.rows # lu.m_lu.cols
  THEN [outcome |-> "assert: non-square", value |-> "none"]
  ELSE [outcome |-> "ok",
        value |-> ProdTo([i \in 0..(lu.m_lu.rows - 1) |-> lu.m_lu.a[i, i]], lu.m_lu.rows)]

(* the product taken without asserting that the matrix is square *)
determinant_unchecked(lu) ==
  LET size == Min(lu.m_lu.rows, lu.m_lu.cols)
  IN [outcome |-> "ok",
      value |-> RMul(RInt(lu.m_det_pq),
                     ProdTo([i \in 0..(size - 1) |-> lu.m_lu.a[i, i]], size))]

determinant(lu) ==
  IF lu.m_lu.rows # lu.m_lu.cols
  THEN [outcome |-> "assert: non-square", value |-> "none"]
  ELSE [outcome |-> "ok",
        value |-> RMul(RInt(lu.m_det_pq),
                       ProdTo([i \in 0..(lu.m_lu.rows - 1) |-> lu.m_lu.a[i, i]], lu.m_lu.rows))]

(* ------------------- LU::computeKernel --------------------------------- *)
(* the kernel built from the top-right corner of U without its minus sign *)
computeKernel_unnegated(lu) ==
  LET cols == lu.m_lu.cols
      rank == lu.m_rank
      dimker == cols - rank
      y0 == Mat(rank, dimker,
      [i \in 0..(rank - 1), j \in 0..(dimker - 1) |->
         lu.m_lu.a[i, rank + j]])
      y == SolveUpper(lu.m_lu, rank, y0, rank - 1)
      r1 == UnpermuteRows(resize(cols, dimker), y, lu.m_q, rank, 0)
  IN Mat(cols, dimker,
         [i \in 0..(cols - 1), j \in 0..(dimker - 1) |->
            IF i = lu.m_q[rank + j] THEN ROne ELSE r1.a[i, j]])

computeKernel(lu) ==
  LET cols == lu.m_lu.cols
      rank == lu.m_rank
      dimker == cols - rank
      y0 == Mat(rank, dimker,
      [i \in 0..(rank - 1), j \in 0..(dimker - 1) |->
         RNeg(lu.m_lu.a[i, rank + j])])
      y == SolveUpper(lu.m_lu, rank, y0, rank - 1)
      r1 == UnpermuteRows(resize(cols, dimker), y, lu.m_q, rank, 0)
  IN Mat(cols, dimker,
         [i \in 0..(cols - 1), j \in 0..(dimker - 1) |->
            IF i = lu.m_q[rank + j] THEN ROne ELSE r1.a[i, j]])

(* ------------------- LU::computeImage ---------------------------------- *)
(* the columns gathered from the decomposition buffer m_lu *)
computeImage_buffer(lu, original) ==
  Mat(original.rows, lu.m_rank,
      [i \in 0..(original.rows - 1), j \in 0..(lu.m_rank - 1) |->
         lu.m_lu.a[i, lu.m_q[j]]])

(* reads the matrix m_originalMatrix points to *)
computeImage(lu, original) ==
  Mat(original.rows, lu.m_rank,
      [i \in 0..(original.rows - 1), j \in 0..(lu.m_rank - 1) |->
         original.a[i, lu.m_q[j]]])

(* ------------------- LU::computeInverse -------------------------------- *)
computeInverse(lu) ==
  IF lu.m_lu.rows # lu.m_lu.cols
  THEN [outcome |-> "assert: non-square", value |-> "none"]
  ELSE evalTo(lu, Identity(lu.m_lu.rows, lu.m_lu.cols))

(* ------------------------------ state ----------------------------------- *)
VARIABLES
  matrix,            \* the caller's matrix object, the one m_originalMatrix refers to
  m_originalMatrix,  \* "null" or "matrix"
  m_lu, m_p, m_q, m_det_pq, m_rank, m_precision,
  call,              \* the last operation called
  rhs,               \* the argument of the last call, as it was passed
  outcome,           \* "ok" or the assertion that failed
  result,            \* the value the last operation returned
  writes,            \* how many times the caller wrote to matrix since compute()
  threshold,         \* the value the caller last passed to setThreshold(), or << >>
  computes           \* how many times compute() was called on the object

vars == <<matrix, m_originalMatrix, m_lu, m_p, m_q, m_det_pq, m_rank, m_precision,
          call, rhs, outcome, result, writes, threshold, computes>>
members == <<m_originalMatrix, m_lu, m_p, m_q, m_det_pq, m_rank, m_precision>>

this == [m_lu |-> m_lu, m_p |-> m_p, m_q |-> m_q, m_det_pq |-> m_det_pq,
         m_rank |-> m_rank, m_precision |-> m_precision]

(* ------------------------------ inputs ---------------------------------- *)
Values == (0 - MaxVal)..MaxVal

MatricesOf(r, c) ==
  {[rows |-> r, cols |-> c, a |-> [p \in DOMAIN f |-> RInt(f[p])]] :
     f \in [Cells(r, c) -> Values]}

Shapes(cells) == {s \in (0..MaxRows) \X (0..MaxCols) : s[1] * s[2] <= cells}

Matrices == UNION {MatricesOf(s[1], s[2]) : s \in Shapes(MaxCells)}

Ones(r, c) == Mat(r, c,
      [i \in 0..(r - 1), j \in 0..(c - 1) |->
         ROne])

(* the matrices offered to a second compute() on the same object: Zero,     *)
(* Identity and Ones of every shape                                         *)
RecomputeMatrices ==
  UNION {{Zero(s[1], s[2]), Identity(s[1], s[2]), Ones(s[1], s[2])} : s \in Shapes(MaxCells)}

(* right-hand sides offered to solve(): every one of the height of the     *)
(* decomposed matrix, the images matrix * x0 of the small vectors x0, and   *)
(* one of each other height                                                 *)
RhsSet ==
  UNION {MatricesOf(m_lu.rows, c) : c \in 1..MaxRhsCols}
  \cup {MatMul(matrix, x0) : x0 \in MatricesOf(matrix.cols, 1)}
  \cup {Zero(r, 1) : r \in (0..MaxRows) \ {m_lu.rows}}

(* ------------------------------ actions --------------------------------- *)
NotInitialized == [outcome |-> "assert: LU is not initialized.", value |-> "none"]
Ok(v) == [outcome |-> "ok", value |-> v]

(* LU::LU() *)
Init ==
  /\ matrix = resize(0, 0)
  /\ m_originalMatrix = "null"
  /\ m_lu = resize(0, 0)
  /\ m_p = IdentityIdx(0)
  /\ m_q = IdentityIdx(0)
  /\ m_det_pq = 0
  /\ m_rank = -1
  /\ m_precision = precision
  /\ call = "LU"
  /\ rhs = "none"
  /\ outcome = "ok"
  /\ result = "none"
  /\ writes = 0
  /\ threshold = << >>
  /\ computes = 0

(* the caller is between two calls: the last call returned, or its        *)
(* assertion was caught as VERIFY_RAISES_ASSERT does, and was taken note of *)
Idle == call = "idle"

Return ==
  /\ call # "idle"
  /\ call' = "idle"
  /\ rhs' = "none"
  /\ outcome' = "ok"
  /\ result' = "none"
  /\ UNCHANGED <<matrix, members, writes, threshold, computes>>

(* lu.compute(M), M an object of the caller *)
Compute(M) ==
  LET c == computeOn(this, M)
  IN /\ Idle
     /\ computes < MaxComputes
     /\ computes' = computes + 1
     /\ matrix' = c.matrix
     /\ m_originalMatrix' = "matrix"
     /\ m_lu' = c.m_lu
     /\ m_p' = c.m_p
     /\ m_q' = c.m_q
     /\ m_det_pq' = c.m_det_pq
     /\ m_rank' = c.m_rank
     /\ m_precision' = c.m_precision
     /\ call' = "compute"
     /\ rhs' = M
     /\ outcome' = "ok"
     /\ result' = "none"
     /\ writes' = 0
     /\ UNCHANGED threshold

(* a const member function: asserts m_originalMatrix != 0, then returns r;  *)
(* called between two calls, or once more right after the same call with    *)
(* the same argument                                                        *)
Query(name, arg, r) ==
  LET ret == IF m_originalMatrix = "null" THEN NotInitialized ELSE r
  IN /\ Idle \/ (call = name /\ rhs = arg)
     /\ call' = name
     /\ rhs' = arg
     /\ outcome' = ret.outcome
     /\ result' = ret.value
     /\ UNCHANGED <<matrix, members, writes, threshold, computes>>

(* rank() without its assertion *)
Rank_unchecked ==
  /\ Idle
  /\ call' = "rank"
  /\ rhs' = "none"
  /\ outcome' = "ok"
  /\ result' = m_rank
  /\ UNCHANGED <<matrix, members, writes, threshold, computes>>

(* isSurjective() comparing the rank with the number of columns *)
IsSurjective_cols == Query("isSurjective", "none", Ok(m_rank = m_lu.cols))

MatrixLU == Query("matrixLU", "none", Ok(m_lu))
PermutationP == Query("permutationP", "none", Ok(m_p))
PermutationQ == Query("permutationQ", "none", Ok(m_q))
Rank == Query("rank", "none", Ok(m_rank))
DimensionOfKernel == Query("dimensionOfKernel", "none", Ok(m_lu.cols - m_rank))
IsInjective == Query("isInjective", "none", Ok(m_rank = m_lu.cols))
IsSurjective == Query("isSurjective", "none", Ok(m_rank = m_lu.rows))
IsInvertible ==
  Query("isInvertible", "none", Ok(m_rank = m_lu.cols /\ m_rank = m_lu.rows))
Determinant == Query("determinant", "none", determinant(this))
(* kernel() negating the top-right corner of m_lu in place instead of in a  *)
(* copy                                                                     *)
Kernel_inplace ==
  LET ret == IF m_originalMatrix = "null" THEN NotInitialized ELSE Ok(computeKernel(this))
      negated == Mat(m_lu.rows, m_lu.cols,
                     [i \in 0..(m_lu.rows - 1), j \in 0..(m_lu.cols - 1) |->
                        IF i < m_rank /\ j >= m_rank THEN RNeg(m_lu.a[i, j])
                        ELSE m_lu.a[i, j]])
  IN /\ Idle \/ call = "kernel"
     /\ call' = "kernel"
     /\ rhs' = "none"
     /\ outcome' = ret.outcome
     /\ result' = ret.value
     /\ m_lu' = IF m_originalMatrix = "null" THEN m_lu ELSE negated
     /\ UNCHANGED <<matrix, m_originalMatrix, m_p, m_q, m_det_pq, m_rank, m_precision,
                    writes, threshold, computes>>

Kernel == Query("kernel", "none", Ok(computeKernel(this)))
Image == Query("image", "none", Ok(computeImage(this, matrix)))
Solve(b) == Query("solve", b, evalTo(this, b))
Inverse == Query("inverse", "none", computeInverse(this))

(* the caller writes one coefficient of the matrix it had decomposed *)
CallerWrites(i, j, v) ==
  /\ Idle
  /\ m_originalMatrix = "matrix"
  /\ writes < MaxWrites
  /\ writes' = writes + 1
  /\ matrix.a[i, j] # RInt(v)
  /\ matrix' = [matrix EXCEPT !.a[i, j] = RInt(v)]
  /\ call' = "write"
  /\ rhs' = "none"
  /\ outcome' = "ok"
  /\ result' = "none"
  /\ UNCHANGED <<members, threshold, computes>>

Queries ==
  \/ MatrixLU \/ PermutationP \/ PermutationQ
  \/ Rank \/ DimensionOfKernel \/ IsInjective \/ IsSurjective \/ IsInvertible
  \/ Determinant \/ Kernel \/ Image \/ Inverse
  \/ \E b \in RhsSet : Solve(b)

FirstCompute == m_originalMatrix = "null" /\ \E M \in Matrices : Compute(M)
Recompute == m_originalMatrix # "null" /\ \E M \in RecomputeMatrices : Compute(M)

Next ==
  \/ FirstCompute
  \/ Recompute
  \/ Queries
  \/ Return

Spec == Init /\ [][Next]_vars

(* the same object used by a caller that also writes to the matrix it had  *)
(* decomposed, which m_originalMatrix still refers to                      *)
SmallMatrices == UNION {MatricesOf(s[1], s[2]) : s \in Shapes(MaxAliasCells)}

FirstComputeSmall == m_originalMatrix = "null" /\ \E M \in SmallMatrices : Compute(M)

CallerWritesAny ==
  \E i \in 0..(matrix.rows - 1) : \E j \in 0..(matrix.cols - 1) : \E v \in Values :
    CallerWrites(i, j, v)

NextAliased ==
  \/ FirstComputeSmall
  \/ Recompute
  \/ Queries
  \/ Return
  \/ CallerWritesAny

SpecAliased == Init /\ [][NextAliased]_vars

(* the same object used by a caller that also sets the threshold of the    *)
(* negligible-pivot test                                                    *)
Thresholds == {Rat(1, 2), ROne}

(* setThreshold(t): stores t as the threshold member of the object *)
SetThreshold(t) ==
  /\ Idle
  /\ threshold # t
  /\ threshold' = t
  /\ m_precision' = t
  /\ call' = "setThreshold"
  /\ rhs' = "none"
  /\ outcome' = "ok"
  /\ result' = "none"
  /\ UNCHANGED <<matrix, m_originalMatrix, m_lu, m_p, m_q, m_det_pq, m_rank, writes, computes>>

SetThresholdAny == \E t \in Thresholds : SetThreshold(t)

NextThreshold ==
  \/ FirstComputeSmall
  \/ Recompute
  \/ Queries
  \/ Return
  \/ SetThresholdAny

SpecThreshold == Init /\ [][NextThreshold]_vars

(* ===================== reference linear algebra ======================== *)
(* independent of the elimination: determinants by cofactor expansion and  *)
(* the rank as the size of the largest non-vanishing minor                 *)
RECURSIVE SortedSeq(_)
SortedSeq(S) ==
  IF S = {} THEN <<>>
  ELSE LET m == CHOOSE x \in S : \A y \in S : x <= y IN <<m>> \o SortedSeq(S \ {m})

Without(sq, t) == [i \in 1..(Len(sq) - 1) |-> IF i < t THEN sq[i] ELSE sq[i + 1]]

RECURSIVE DetOf(_, _, _)
DetOf(m, rs, cs) ==
  IF Len(rs) = 0 THEN ROne
  ELSE RSum([t \in 1..Len(cs) |->
               RMul(IF t % 2 = 1 THEN m.a[rs[1], cs[t]] ELSE RNeg(m.a[rs[1], cs[t]]),
                    DetOf(m, Tail(rs), Without(cs, t)))],
            1, Len(cs))

Det(m) == DetOf(m, SortedSeq(0..(m.rows - 1)), SortedSeq(0..(m.cols - 1)))

HasMinor(m, k) ==
  \E R \in SUBSET (0..(m.rows - 1)) : \E C \in SUBSET (0..(m.cols - 1)) :
    /\ Cardinality(R) = k
    /\ Cardinality(C) = k
    /\ DetOf(m, SortedSeq(R), SortedSeq(C)) # RZero

MinorRank(m) ==
  CHOOSE k \in 0..Min(m.rows, m.cols) :
    HasMinor(m, k) /\ \A k2 \in (k + 1)..Min(m.rows, m.cols) : ~HasMinor(m, k2)

(* L and U as read from matrixLU(): L is rows x rows unit lower triangular, *)
(* U is rows x cols upper triangular                                        *)
MatrixL(lu) ==
  Mat(lu.rows, lu.rows,
      [i \in 0..(lu.rows - 1), j \in 0..(lu.rows - 1) |->
         IF i = j THEN ROne
                 ELSE IF i > j /\ j < lu.cols THEN lu.a[i, j] ELSE RZero])

MatrixU(lu) ==
  Mat(lu.rows, lu.cols,
      [i \in 0..(lu.rows - 1), j \in 0..(lu.cols - 1) |->
         IF i <= j THEN lu.a[i, j] ELSE RZero])

AfterCompute == call = "compute"

(* ============================== claims ================================== *)
(* C1 - Reconstruction: after compute(A), A with its rows permuted by       *)
(* permutationP() (row i of A goes to row m_p[i], as solve() uses it) and    *)
(* its columns by permutationQ() (column j comes from column m_q[j] of A)    *)
(* equals L * U exactly, L and U read from matrixLU().                       *)
C1_Reconstruction ==
  AfterCompute =>
    LET lxu == MatMul(MatrixL(m_lu), MatrixU(m_lu))
    IN /\ m_lu.rows = matrix.rows /\ m_lu.cols = matrix.cols
       /\ \A i \in 0..(matrix.rows - 1) : \A j \in 0..(matrix.cols - 1) :
            lxu.a[m_p[i], j] = matrix.a[i, m_q[j]]

(* a tall matrix decomposed with row swaps, the row permutation not being  *)
(* its own inverse                                                          *)
C1_Witness ==
  /\ AfterCompute
  /\ matrix.rows > matrix.cols
  /\ m_rank = matrix.cols
  /\ \E i \in 0..(matrix.rows - 1) : m_p[m_p[i]] # i

(* C2 - Rank revealing: after compute(A), rank() is the rank of A (the size *)
(* of its largest non-vanishing minor), and when the diagonal of U holds a   *)
(* zero, rank() is the index of the first one.                               *)
C2_RankRevealing ==
  AfterCompute =>
    /\ m_rank = MinorRank(matrix)
    /\ \A i \in 0..(Min(m_lu.rows, m_lu.cols) - 1) :
         (m_lu.a[i, i] = RZero /\ \A l \in 0..(i - 1) : m_lu.a[l, l] # RZero) => m_rank = i

(* a non-zero matrix of less than full rank *)
C2_Witness ==
  /\ AfterCompute
  /\ m_rank > 0
  /\ m_rank < Min(matrix.rows, matrix.cols)
  /\ m_lu.a[m_rank, m_rank] = RZero

(* the system A * X = rhs has a solution: A is onto, or one of the small    *)
(* integer matrices solves it                                               *)
Solvable ==
  \/ m_rank = matrix.rows
  \/ \E x0 \in MatricesOf(matrix.cols, rhs.cols) : MatMul(matrix, x0) = rhs

(* C3 - Solve round-trip: when B has as many rows as A and A * X0 = B has a *)
(* solution, X = solve(B) satisfies A * X = B exactly, for square, wide,     *)
(* tall, full-rank and rank-deficient A.                                     *)
C3_SolveRoundTrip ==
  (call = "solve" /\ m_originalMatrix = "matrix" /\ rhs.rows = matrix.rows /\ Solvable) =>
    /\ outcome = "ok"
    /\ result.rows = matrix.cols /\ result.cols = rhs.cols
    /\ MatMul(matrix, result) = rhs

(* a non-zero right-hand side solved against a non-zero rank-deficient      *)
(* matrix with swapped rows                                                 *)
C3_Witness ==
  /\ call = "solve"
  /\ outcome = "ok"
  /\ m_rank > 0
  /\ m_rank < Min(matrix.rows, matrix.cols)
  /\ m_p # IdentityIdx(matrix.rows)
  /\ rhs.rows = matrix.rows
  /\ rhs # Zero(rhs.rows, rhs.cols)
  /\ Solvable

(* C4 - Kernel: after compute(A) with rank() < cols, kernel() has           *)
(* cols - rank() columns, A * kernel() = 0, column k holds a 1 in row        *)
(* m_q[rank + k] and 0 in every other row m_q[rank + j], and the columns are *)
(* linearly independent.                                                     *)
C4_KernelBasis ==
  (call = "kernel" /\ outcome = "ok" /\ m_rank < matrix.cols) =>
    LET dimker == matrix.cols - m_rank
    IN /\ result.rows = matrix.cols
       /\ result.cols = dimker
       /\ MatMul(matrix, result) = Zero(matrix.rows, dimker)
       /\ \A j \in 0..(dimker - 1) : \A k \in 0..(dimker - 1) :
            result.a[m_q[m_rank + j], k] = IF j = k THEN ROne ELSE RZero
       /\ MinorRank(result) = dimker

(* a kernel of dimension two of a non-zero matrix whose columns were        *)
(* swapped, with a basis vector that is not a unit vector                   *)
C4_Witness ==
  /\ call = "kernel"
  /\ outcome = "ok"
  /\ m_rank > 0
  /\ matrix.cols - m_rank = 2
  /\ m_q # IdentityIdx(matrix.cols)
  /\ \E i \in 0..(result.rows - 1) : \E k \in 0..(result.cols - 1) :
       result.a[i, k] \notin {RZero, ROne}

SideBySide(m, n) ==
  Mat(m.rows, m.cols + n.cols,
      [i \in 0..(m.rows - 1), j \in 0..(m.cols + n.cols - 1) |->
         IF j < m.cols THEN m.a[i, j] ELSE n.a[i, j - m.cols]])

(* C6 - Image is a basis of the column space: with rank() > 0 and A as it   *)
(* was decomposed, the columns of image() are linearly independent and       *)
(* appending them to A does not change the rank.                             *)
C6_ImageBasis ==
  (call = "image" /\ outcome = "ok" /\ m_rank > 0) =>
    /\ MinorRank(result) = m_rank
    /\ MinorRank(matrix) = m_rank
    /\ MinorRank(SideBySide(matrix, result)) = m_rank

(* the image of a rank-deficient matrix whose leading rank() columns are    *)
(* linearly dependent                                                       *)
C6_Witness ==
  /\ call = "image"
  /\ outcome = "ok"
  /\ m_rank > 0
  /\ m_rank < matrix.cols
  /\ MinorRank(computeImage([m_q |-> IdentityIdx(matrix.cols), m_rank |-> m_rank], matrix))
       < m_rank

(* C7 - Determinant: for a square A, determinant() is the determinant of A; *)
(* it is 0 when rank() < n, and 1 with rank() = n for the identity.          *)
C7_Determinant ==
  (call = "determinant" /\ outcome = "ok") =>
    /\ matrix.rows = matrix.cols
    /\ result = Det(matrix)
    /\ (m_rank < matrix.rows => result = RZero)
    /\ (matrix = Identity(matrix.rows, matrix.cols) => result = ROne /\ m_rank = matrix.rows)

(* a non-zero determinant whose sign comes from an odd number of swaps *)
C7_Witness ==
  /\ call = "determinant"
  /\ outcome = "ok"
  /\ m_det_pq = -1
  /\ result # RZero
  /\ matrix.rows >= 2

QueryNames ==
  {"matrixLU", "permutationP", "permutationQ", "kernel", "image", "solve", "determinant",
   "rank", "dimensionOfKernel", "isInjective", "isSurjective", "isInvertible", "inverse"}

(* C8 - Two-phase lifecycle: before any compute() every compute-dependent   *)
(* operation ends in the assertion "LU is not initialized." and returns no   *)
(* value; after a compute() none of them fails with that assertion.          *)
C8_Lifecycle ==
  call \in QueryNames =>
    IF m_originalMatrix = "null"
    THEN outcome = NotInitialized.outcome /\ result = "none"
    ELSE outcome # NotInitialized.outcome

(* every operation of the list has been called on an object never computed; *)
(* here the last of them, inverse()                                          *)
C8_Witness ==
  /\ m_originalMatrix = "null"
  /\ call = "inverse"
  /\ outcome = NotInitialized.outcome

(* C9 - Rank invariants: after compute(A), 0 <= rank() <= min(rows, cols),  *)
(* dimensionOfKernel() = cols - rank(), isInjective() = (rank() = cols),     *)
(* isSurjective() = (rank() = rows), isInvertible() = both, hence false for  *)
(* every non-square A.                                                       *)
C9_RankInvariants ==
  (m_originalMatrix = "matrix" /\ call \in QueryNames) =>
    /\ call = "rank" =>
         outcome = "ok" /\ result = m_rank /\ 0 <= result
                        /\ result <= Min(matrix.rows, matrix.cols)
    /\ call = "dimensionOfKernel" => outcome = "ok" /\ result = matrix.cols - m_rank
    /\ call = "isInjective" => outcome = "ok" /\ result = (m_rank = matrix.cols)
    /\ call = "isSurjective" => outcome = "ok" /\ result = (m_rank = matrix.rows)
    /\ call = "isInvertible" =>
         /\ outcome = "ok"
         /\ result = (m_rank = matrix.cols /\ m_rank = matrix.rows)
         /\ (matrix.rows # matrix.cols => result = FALSE)

(* a tall matrix of full column rank: injective, yet not surjective *)
C9_Witness ==
  /\ m_originalMatrix = "matrix"
  /\ call = "isSurjective"
  /\ result = FALSE
  /\ matrix.rows > matrix.cols
  /\ m_rank = matrix.cols
  /\ m_rank > 0

(* C10 - Kernel shape convention, as claimed: kernel().cols() is            *)
(* max(1, dimensionOfKernel()), and for an injective A kernel() is one zero  *)
(* column.  The code sizes the result cols x dimensionOfKernel().            *)
C10_KernelShape ==
  (call = "kernel" /\ outcome = "ok") =>
    /\ result.cols = Max(1, matrix.cols - m_rank)
    /\ (m_rank = matrix.cols => result = Zero(matrix.cols, 1))

(* the rank the elimination finds for matrix when its negligible-pivot test *)
(* runs with the threshold prec                                             *)
RankWith(A, prec) ==
  EliminationLoop(EliminationStart(A), 0, Min(A.rows, A.cols), prec).rank

(* C11 - Threshold override, as claimed: the threshold the caller set       *)
(* before compute() is the one compute() uses, and rank() is the rank found  *)
(* with it; epsilon * min(rows, cols) is used only when none was set.  The   *)
(* code assigns epsilon * size to m_precision in every compute().            *)
C11_ThresholdOverride ==
  AfterCompute =>
    LET used == IF threshold = << >>
                THEN RMul(epsilon, RInt(Min(matrix.rows, matrix.cols)))
                ELSE threshold
    IN /\ m_precision = used
       /\ m_rank = RankWith(matrix, used)

C13_PivotOrdering ==
  AfterCompute =>
    \A k \in 0..(m_rank - 2) :
      RLe(RAbs(m_lu.a[k + 1, k + 1]), RAbs(m_lu.a[k, k]))

(* C13 - Pivot ordering, amended: after compute(A), every pivot k < rank()  *)
(* is at least as large in magnitude as every entry of row k of U, every     *)
(* multiplier in column k of L is at most 1 in magnitude, and the pivot is   *)
(* not negligible next to the first one.                                     *)
C13_PivotDominance ==
  AfterCompute =>
    \A k \in 0..(m_rank - 1) :
      /\ \A j \in k..(m_lu.cols - 1) : RLe(RAbs(m_lu.a[k, j]), RAbs(m_lu.a[k, k]))
      /\ \A i \in (k + 1)..(m_lu.rows - 1) : RLe(RAbs(m_lu.a[i, k]), ROne)
      /\ ~ei_isMuchSmallerThan(m_lu.a[k, k], m_lu.a[0, 0], m_precision)

(* a decomposition whose second pivot is larger than its first *)
C13_Witness ==
  /\ AfterCompute
  /\ \E k \in 0..(m_rank - 2) : RLt(RAbs(m_lu.a[k, k]), RAbs(m_lu.a[k + 1, k + 1]))
  /\ \E i \in 1..(m_lu.rows - 1) : m_lu.a[i, 0] # RZero

(* the rows of m after the row swaps (k, t[k]) in the order the elimination *)
(* made them, k = from .. size-1                                            *)
RECURSIVE ApplyRowSwaps(_, _, _, _)
ApplyRowSwaps(m, t, k, size) ==
  IF k >= size THEN m ELSE ApplyRowSwaps(SwapRows(m, k, t[k]), t, k + 1, size)

(* the row transpositions compute(A) records *)
RowsTranspositions(A) ==
  LET size == Min(A.rows, A.cols)
  IN EliminationLoop(EliminationStart(A), 0, size, RMul(epsilon, RInt(size))).rows_transpositions

(* every sequence of pivot rows an elimination of A can choose: the pivot   *)
(* row of pass k is one of the rows k .. rows-1                             *)
PivotRowChoices(A) ==
  {t \in [0..(Min(A.rows, A.cols) - 1) -> 0..(A.rows - 1)] : \A k \in DOMAIN t : t[k] >= k}

(* C14 - Row permutation convention, as claimed: row i of the row-permuted  *)
(* matrix PA equals row rowPermutation[i] of A.                              *)
C14_RowGather ==
  AfterCompute =>
    LET size == Min(matrix.rows, matrix.cols)
        PA == ApplyRowSwaps(matrix, RowsTranspositions(matrix), 0, size)
    IN \A i \in 0..(matrix.rows - 1) : RowOf(PA, i) = RowOf(matrix, m_p[i])

(* C14 - Row permutation convention, amended: row rowPermutation[i] of the  *)
(* row-permuted matrix PA equals row i of A, for the pivot rows compute(A)   *)
(* chose and for every other sequence of pivot rows replayed the same way.   *)
C14_RowScatter ==
  AfterCompute =>
    LET size == Min(matrix.rows, matrix.cols)
        PA == ApplyRowSwaps(matrix, RowsTranspositions(matrix), 0, size)
    IN /\ \A i \in 0..(matrix.rows - 1) : RowOf(PA, m_p[i]) = RowOf(matrix, i)
       /\ \A t \in PivotRowChoices(matrix) :
            LET p == ReplayReverse(IdentityIdx(matrix.rows), t, size - 1)
                PAt == ApplyRowSwaps(matrix, t, 0, size)
            IN \A i \in 0..(matrix.rows - 1) : RowOf(PAt, p[i]) = RowOf(matrix, i)

(* a matrix with pairwise distinct rows whose row permutation is not its    *)
(* own inverse                                                              *)
C14_Witness ==
  /\ AfterCompute
  /\ \E i \in 0..(matrix.rows - 1) : m_p[m_p[i]] # i
  /\ \A i \in 0..(matrix.rows - 1) : \A l \in 0..(matrix.rows - 1) :
       i # l => RowOf(matrix, i) # RowOf(matrix, l)

(* v holds each of 0 .. n-1 exactly once *)
IsPermutation(v, n) ==
  /\ DOMAIN v = 0..(n - 1)
  /\ \A x \in 0..(n - 1) : Cardinality({i \in DOMAIN v : v[i] = x}) = 1

(* C15 - Permutation invariant: after every compute(A), also one that       *)
(* stopped early, permutationP() holds each of 0..rows-1 exactly once and    *)
(* permutationQ() each of 0..cols-1 exactly once.                            *)
C15_Permutations ==
  AfterCompute =>
    /\ IsPermutation(m_p, matrix.rows)
    /\ IsPermutation(m_q, matrix.cols)

(* a compute() that stopped early after swapping both rows and columns *)
C15_Witness ==
  /\ AfterCompute
  /\ m_rank > 0
  /\ m_rank < Min(matrix.rows, matrix.cols)
  /\ m_p # IdentityIdx(matrix.rows)
  /\ m_q # IdentityIdx(matrix.cols)

(* C16 - determinant() on the decomposition of a non-square matrix ends in  *)
(* the assertion that the matrix is square, and returns no value.            *)
C16_DeterminantNonSquare ==
  (call = "determinant" /\ m_originalMatrix = "matrix" /\ matrix.rows # matrix.cols) =>
    /\ outcome = "assert: non-square"
    /\ result = "none"

(* determinant() called on a non-zero wide matrix *)
C16_Witness ==
  /\ call = "determinant"
  /\ m_originalMatrix = "matrix"
  /\ matrix.rows < matrix.cols
  /\ m_rank = matrix.rows
  /\ m_rank > 0
  /\ outcome # "ok"

(* the decomposed matrix is an all-zero matrix with rows and columns *)
ZeroDecomposed ==
  /\ m_originalMatrix = "matrix"
  /\ matrix.rows >= 1
  /\ matrix.cols >= 1
  /\ matrix = Zero(matrix.rows, matrix.cols)

(* C17 - image() on the decomposition of an all-zero matrix, as claimed: an *)
(* assertion fails and no matrix is returned.  The code asserts only that    *)
(* the object is initialized and then sizes the result rows x rank().        *)
C17_ImageOfZeroAsserts ==
  (call = "image" /\ ZeroDecomposed) =>
    /\ m_rank = 0
    /\ outcome # "ok"
    /\ result = "none"

(* C18 - the image of the zero matrix, as claimed: after                    *)
(* compute(Zero(rows, cols)), image() returns a matrix with exactly one      *)
(* column, a zero column.  The code returns rank() = 0 columns.              *)
C18_ImageOfZeroOneColumn ==
  (call = "image" /\ ZeroDecomposed) =>
    /\ outcome = "ok"
    /\ result = Zero(matrix.rows, 1)

(* C19 - kernel() on the decomposition of an invertible matrix, as claimed: *)
(* an assertion fails.  The code asserts only that the object is             *)
(* initialized and then sizes the result cols x dimensionOfKernel().         *)
C19_KernelOfInvertibleAsserts ==
  (/\ call = "kernel"
   /\ m_originalMatrix = "matrix"
   /\ matrix.rows >= 1
   /\ m_rank = matrix.rows
   /\ m_rank = matrix.cols) =>
    /\ outcome # "ok"
    /\ result = "none"

(* C20 - Free unknowns are zero: X = solve(B) is cols x B.cols(), its rows  *)
(* m_q[i] for i in rank() .. cols-1 are zero, every row of X is the target   *)
(* of exactly one i and holds written values, and rank() = 0 gives X = 0.    *)
C20_FreeUnknownsZero ==
  (call = "solve" /\ outcome = "ok") =>
    /\ result.rows = matrix.cols
    /\ result.cols = rhs.cols
    /\ \A i \in m_rank..(matrix.cols - 1) : \A j \in 0..(result.cols - 1) :
         result.a[m_q[i], j] = RZero
    /\ \A r \in 0..(result.rows - 1) :
         /\ Cardinality({i \in 0..(matrix.cols - 1) : m_q[i] = r}) = 1
         /\ \A j \in 0..(result.cols - 1) : IsNum(result.a[r, j])
    /\ (m_rank = 0 => result = Zero(matrix.cols, rhs.cols))

(* a non-zero solution of a system with a free unknown that the column      *)
(* permutation moved                                                        *)
C20_Witness ==
  /\ call = "solve"
  /\ outcome = "ok"
  /\ m_rank > 0
  /\ \E i \in m_rank..(matrix.cols - 1) : m_q[i] # i
  /\ result # Zero(result.rows, result.cols)

(* C21 - compute(A) leaves the caller's matrix unchanged: when compute()    *)
(* has returned, the caller's matrix holds the coefficients it was passed    *)
(* with, the swaps and eliminations having been made on m_lu.                *)
C21_CallerMatrixUnchanged ==
  AfterCompute =>
    /\ matrix = rhs
    /\ m_originalMatrix = "matrix"

(* a compute() that swapped rows and eliminated: the working copy holds     *)
(* coefficients the caller's matrix cannot hold                             *)
C21_Witness ==
  /\ AfterCompute
  /\ m_p # IdentityIdx(matrix.rows)
  /\ m_rank >= 2
  /\ \E c \in Cells(matrix.rows, matrix.cols) : m_lu.a[c] \notin {RInt(v) : v \in Values}

(* C22 - Immutability after compute: once compute() has returned, no call   *)
(* of solve, kernel, image, determinant, inverse, rank or another accessor   *)
(* changes m_lu, m_p, m_q, m_rank, m_det_pq or m_precision, and the same     *)
(* query made again with the same argument ends the same way with the same   *)
(* result.                                                                   *)
C22_Immutability ==
  [][(m_originalMatrix = "matrix" /\ call' \in QueryNames) =>
       /\ members' = members
       /\ matrix' = matrix
       /\ (call' = call /\ rhs' = rhs) => (outcome' = outcome /\ result' = result)]_vars

(* kernel() answered on a decomposition whose top-right corner of U, which  *)
(* kernel() negates in a copy, is not zero                                  *)
C22_Witness ==
  /\ call = "kernel"
  /\ outcome = "ok"
  /\ m_rank > 0
  /\ \E i \in 0..(m_rank - 1) : \E j \in m_rank..(m_lu.cols - 1) : m_lu.a[i, j] # RZero

(* the loop variables when pass n is about to start: the passes from .. n-1 *)
(* of the loop over k < size have run                                       *)
RECURSIVE EliminationUpTo(_, _, _, _, _)
EliminationUpTo(s, k, n, size, prec) ==
  IF k >= n \/ s.break THEN s
  ELSE EliminationUpTo(EliminationStep(s, k, size, prec), k + 1, n, size, prec)

(* the working matrix of compute(A) when pass k is about to start *)
WorkingBefore(A, k) ==
  LET size == Min(A.rows, A.cols)
  IN EliminationUpTo(EliminationStart(A), 0, k, size, RMul(epsilon, RInt(size))).lu

(* C23 - Complete pivoting: at every pass k that does not end the loop, the *)
(* entry that ends at (k,k) is an entry of the trailing block rows >= k,     *)
(* cols >= k of the working matrix of that moment and no entry of the block  *)
(* is larger in magnitude; hence the multipliers of column k of L are at     *)
(* most 1 in magnitude and no entry of row k of U exceeds the pivot.         *)
C23_CompletePivoting ==
  AfterCompute =>
    \A k \in 0..(m_rank - 1) :
      LET before == WorkingBefore(matrix, k)
          block == (k..(matrix.rows - 1)) \X (k..(matrix.cols - 1))
      IN /\ \E c \in block :
              /\ before.a[c] = m_lu.a[k, k]
              /\ \A i \in (k + 1)..(m_lu.rows - 1) : \E r \in k..(matrix.rows - 1) :
                   m_lu.a[i, k] = RDiv(before.a[r, c[2]], m_lu.a[k, k])
         /\ \A c \in block : RLe(RAbs(before.a[c]), RAbs(m_lu.a[k, k]))
         /\ \A i \in (k + 1)..(m_lu.rows - 1) : RLe(RAbs(m_lu.a[i, k]), ROne)
         /\ \A j \in (k + 1)..(m_lu.cols - 1) : RLe(RAbs(m_lu.a[k, j]), RAbs(m_lu.a[k, k]))

(* a second pass that found its pivot neither in row 1 nor among the        *)
(* original coefficients: the block had changed and a row was swapped        *)
C23_Witness ==
  /\ AfterCompute
  /\ m_rank >= 2
  /\ WorkingBefore(matrix, 1) # WorkingBefore(matrix, 2)
  /\ WorkingBefore(matrix, 1).a[1, 1] # m_lu.a[1, 1]
  /\ RLt(ROne, RAbs(m_lu.a[1, 1]))

ColOf(m, c) == [i \in 0..(m.rows - 1) |-> m.a[i, c]]

(* the columns of m after the column swaps (k, t[k]) in the order the       *)
(* elimination made them, k = from .. size-1                                *)
RECURSIVE ApplyColSwaps(_, _, _, _)
ApplyColSwaps(m, t, k, size) ==
  IF k >= size THEN m ELSE ApplyColSwaps(SwapCols(m, k, t[k]), t, k + 1, size)

(* the column transpositions compute(A) records *)
ColsTranspositions(A) ==
  LET size == Min(A.rows, A.cols)
  IN EliminationLoop(EliminationStart(A), 0, size, RMul(epsilon, RInt(size))).cols_transpositions

(* every sequence of pivot columns an elimination of A can choose *)
PivotColChoices(A) ==
  {t \in [0..(Min(A.rows, A.cols) - 1) -> 0..(A.cols - 1)] : \A k \in DOMAIN t : t[k] >= k}

Sign(v) ==
  LET inversions == {c \in (DOMAIN v) \X (DOMAIN v) : c[1] < c[2] /\ v[c[1]] > v[c[2]]}
  IN IF Cardinality(inversions) % 2 = 0 THEN 1 ELSE -1

(* the number of swaps of two distinct rows or two distinct columns that    *)
(* compute(A) performs                                                      *)
SwapsPerformed(A) ==
  LET size == Min(A.rows, A.cols)
      rt == RowsTranspositions(A)
      ct == ColsTranspositions(A)
  IN Cardinality({k \in 0..(size - 1) : rt[k] # k})
       + Cardinality({k \in 0..(size - 1) : ct[k] # k})

(* C25 - Parity: after compute(A), m_det_pq is +1 when the number of swaps  *)
(* of distinct rows or columns performed is even and -1 when it is odd, and  *)
(* it is the product of the signs of permutationP() and permutationQ().      *)
C25_Parity ==
  AfterCompute =>
    /\ m_det_pq = (IF SwapsPerformed(matrix) % 2 = 0 THEN 1 ELSE -1)
    /\ m_det_pq = Sign(m_p) * Sign(m_q)

(* an odd number of swaps, of rows and of columns *)
C25_Witness ==
  /\ AfterCompute
  /\ m_det_pq = -1
  /\ m_p # IdentityIdx(matrix.rows)
  /\ m_q # IdentityIdx(matrix.cols)
  /\ SwapsPerformed(matrix) = 3

(* the largest magnitude of the trailing block rows >= k, cols >= k of lu *)
BlockMax(lu, k) ==
  LET block == {c \in (k..(lu.rows - 1)) \X (k..(lu.cols - 1)) : TRUE}
  IN RAbs(lu.a[CHOOSE c \in block : \A d \in block : RLe(RAbs(lu.a[d]), RAbs(lu.a[c]))])

(* x is negligible relative to the first pivot of compute(A): the largest   *)
(* magnitude of A, under the threshold epsilon * size                       *)
NegligibleIn(A, x) ==
  RLe(RAbs(x), RMul(BlockMax(A, 0), RMul(epsilon, RInt(Min(A.rows, A.cols)))))

(* C26 - Early termination: compute(A) stops at the first pass k whose       *)
(* trailing block has a negligible largest magnitude relative to the first   *)
(* pivot: rank is that k (or size when there is none), slots k..size-1 of    *)
(* both transposition vectors are identity, and combinedLU is the working    *)
(* matrix as it was when pass k started. Hence every matrixLU()[i,i] with    *)
(* i < rank is non-negligible and every entry in rows >= rank and            *)
(* cols >= rank is negligible.                                               *)
C26_EarlyTermination ==
  AfterCompute =>
    LET size == Min(matrix.rows, matrix.cols)
    IN /\ \A k \in 0..(m_rank - 1) :
            ~NegligibleIn(matrix, BlockMax(WorkingBefore(matrix, k), k))
       /\ m_rank < size =>
            NegligibleIn(matrix, BlockMax(WorkingBefore(matrix, m_rank), m_rank))
       /\ \A i \in m_rank..(size - 1) :
            RowsTranspositions(matrix)[i] = i /\ ColsTranspositions(matrix)[i] = i
       /\ m_lu = WorkingBefore(matrix, m_rank)
       /\ \A i \in 0..(m_rank - 1) : ~NegligibleIn(matrix, m_lu.a[i, i])
       /\ \A i \in m_rank..(m_lu.rows - 1) : \A j \in m_rank..(m_lu.cols - 1) :
            NegligibleIn(matrix, m_lu.a[i, j])

(* the loop stopped at pass 1 of 2, after a swap at pass 0 and an update   *)
(* that cancelled a column of A with no zero entry                          *)
C26_Witness ==
  /\ AfterCompute
  /\ Min(matrix.rows, matrix.cols) = 2
  /\ m_rank = 1
  /\ (m_p # IdentityIdx(matrix.rows) \/ m_q # IdentityIdx(matrix.cols))
  /\ \E j \in 1..(matrix.cols - 1) :
       \A i \in 0..(matrix.rows - 1) : matrix.a[i, m_q[j]] # RZero

(* the first n rows of the right-hand side b after the row permutation and  *)
(* the forward substitution with L (steps 1 and 2 of the solve)             *)
ForwardSubstitutedTop(lu, b, n) ==
  LET c1 == PermuteRhs(resize(b.rows, b.cols), b, lu.m_p, 0)
      c2 == SolveUnitLower(lu.m_lu, Min(lu.m_lu.rows, lu.m_lu.cols), c1, 0)
      c3 == IF lu.m_lu.rows > lu.m_lu.cols THEN CorrectBottom(lu.m_lu, c2) ELSE c2
  IN [i \in 0..(n - 1) |-> RowOf(c3, i)]

(* C27 - Inconsistent systems are absorbed: solve(B) with                   *)
(* B.rows() = A.rows() raises no error and returns a cols x B.cols()        *)
(* matrix, and every right-hand side of the same shape that agrees with B   *)
(* on the first rank rows of the permuted, forward-substituted right-hand   *)
(* side gives the same X.                                                   *)
C27_InconsistentAbsorbed ==
  (call = "solve" /\ m_originalMatrix = "matrix" /\ rhs.rows = matrix.rows) =>
    /\ outcome = "ok"
    /\ result.rows = matrix.cols
    /\ result.cols = rhs.cols
    /\ \A b2 \in MatricesOf(rhs.rows, rhs.cols) :
         ForwardSubstitutedTop(this, b2, m_rank) = ForwardSubstitutedTop(this, rhs, m_rank)
           => evalTo(this, b2).value = result

(* a rank-deficient A after a row swap, a B that the returned X does not    *)
(* satisfy, and another B with another row beyond rank and the same X       *)
C27_Witness ==
  /\ call = "solve"
  /\ outcome = "ok"
  /\ rhs.rows = matrix.rows
  /\ 0 < m_rank
  /\ m_rank < matrix.rows
  /\ m_p # IdentityIdx(matrix.rows)
  /\ MatMul(matrix, result) # rhs
  /\ \E b2 \in MatricesOf(rhs.rows, rhs.cols) :
       /\ b2 # rhs
       /\ ForwardSubstitutedTop(this, b2, m_rank) = ForwardSubstitutedTop(this, rhs, m_rank)
       /\ evalTo(this, b2).value = result

(* C28 - Recompute replaces the state: after a second compute() on the same *)
(* object, combinedLU, rowPermutation, colPermutation, parity, rank and the *)
(* threshold are those of a newly constructed object on which only that     *)
(* compute() was called; nothing of the earlier factorization survives.     *)
C28_RecomputeReplaces ==
  (AfterCompute /\ computes > 1) =>
    LET fresh == compute(matrix)
    IN /\ m_lu = fresh.m_lu
       /\ m_p = fresh.m_p
       /\ m_q = fresh.m_q
       /\ m_det_pq = fresh.m_det_pq
       /\ m_rank = fresh.m_rank
       /\ m_precision = fresh.m_precision

(* a second compute(), of a matrix of at least two rows and two columns *)
C28_Witness ==
  /\ AfterCompute
  /\ computes = 2
  /\ matrix.rows >= 2
  /\ matrix.cols >= 2
  /\ m_rank >= 1

(* every entry of m is a number: no division by zero went into it *)
AllNum(m) == \A c \in DOMAIN m.a : IsNum(m.a[c])

(* C29 - No division by zero: the pivot that compute() divides the          *)
(* sub-column by at pass k is never zero, so no entry of combinedLU comes   *)
(* from a division by zero; the diagonal of the leading rank x rank block   *)
(* has no zero, and no entry of what solve(), inverse() and kernel() return *)
(* comes from a division by zero; the zero matrix included.                 *)
C29_NoDivisionByZero ==
  m_originalMatrix = "matrix" =>
    /\ \A k \in 0..(m_rank - 1) :
         /\ WorkingBefore(matrix, k + 1).a[k, k] # RZero
         /\ m_lu.a[k, k] # RZero
    /\ AllNum(m_lu)
    /\ (call \in {"solve", "inverse", "kernel"} /\ outcome = "ok") => AllNum(result)

(* a solve on a nonzero rank-deficient factorization: the diagonal entry    *)
(* next after the leading rank x rank block is zero                         *)
C29_Witness ==
  /\ call = "solve"
  /\ outcome = "ok"
  /\ 0 < m_rank
  /\ m_rank < Min(m_lu.rows, m_lu.cols)
  /\ m_lu.a[m_rank, m_rank] = RZero
  /\ \E c \in DOMAIN result.a : result.a[c] # RZero

(* the same for the zero matrix *)
C29_WitnessZero ==
  /\ call = "kernel"
  /\ outcome = "ok"
  /\ m_rank = 0
  /\ m_lu.rows >= 2
  /\ m_lu.cols >= 2

(* C30 - Right-hand-side shape check: solve(B) with B.rows() # A.rows() on  *)
(* a computed factorization ends in the precondition violation and returns  *)
(* no result, whatever the rank, rank() = 0 included.                       *)
C30_RhsShapeCheck ==
  (call = "solve" /\ m_originalMatrix = "matrix" /\ rhs.rows # matrix.rows) =>
    /\ outcome = "assert: rhs.rows() == rows"
    /\ result = "none"

(* the same for the factorizations of rank() > 0 only; for those of         *)
(* rank() = 0 the call returns the cols x B.cols() zero matrix              *)
C30_RhsShapeCheckedWhenRankPositive ==
  (call = "solve" /\ m_originalMatrix = "matrix" /\ rhs.rows # matrix.rows) =>
    IF m_rank > 0
    THEN outcome = "assert: rhs.rows() == rows" /\ result = "none"
    ELSE outcome = "ok" /\ result = Zero(matrix.cols, rhs.cols)

C30_WitnessRankPositive ==
  call = "solve" /\ m_originalMatrix = "matrix" /\ rhs.rows # matrix.rows /\ m_rank > 0

C30_WitnessRankZero ==
  /\ call = "solve" /\ m_originalMatrix = "matrix" /\ rhs.rows # matrix.rows
  /\ m_rank = 0 /\ matrix.rows > 0 /\ matrix.cols > 0

====
